---- MODULE Spec2Model ----
(***************************************************************************)
(* Storage facade (MemStorage) and route handlers of the chat backend.     *)
(* JavaScript Maps are modelled as sequences in insertion order; JSON      *)
(* files are modelled by the value JSON.parse would read back from them.   *)
(***************************************************************************)
EXTENDS Integers, Sequences, FiniteSets, TLC

\* ------------------------------------------------------------------ bounds
MaxId == 2          \* explicit configuration ids sent by clients are 1..MaxId
MaxSteps == 3       \* operations per behaviour
MaxPromptSteps == 4  \* operations per behaviour of the prompt routes
MaxWriteFailures == 1
MaxCalls == 3        \* recordApiUsage calls per behaviour
MaxPromptId == 5     \* prompt ids that are created or addressed
MaxNoteId == 2       \* note ids that are created or addressed
MaxPending == 2      \* summary calls in flight at a time
MaxSessionSteps == 3 \* operations per behaviour of the session store
MaxNow == 3          \* the clock runs from StartTime to MaxNow
MaxMessages == 2     \* messages in the body of a chat request
MaxRaceSteps == 3    \* steps of overlapping note handlers per behaviour
MaxTitleSteps == 2   \* createNote and updateNote calls per behaviour

\* --------------------------------------------- JavaScript values as numbers
Undefined == -3     \* the value undefined (and an omitted JSON key)
Null == -2          \* the value null
NaN == -1           \* the number NaN, e.g. Number("abc")

Data == 1 .. 2      \* stands for the (name, endpoint, token, model) fields
ExplicitIds == 1 .. MaxId

DEFAULT_CONFIG_FILE == "api-config.json"
GOOGLE_CONFIG_FILE == "google-api-config.json"
PROMPTS_FILE == "system-prompts.json"
NOTES_FILE == "notes.json"
USAGE_FILE == "data/api-usage.json"

VARIABLES
    configStores,   \* "default" | "google" -> [configs, activeId, nextId]
    configFiles,    \* config file name -> parsed file content
    systemPrompts,  \* Map<number, SystemPrompt> in insertion order
    currentPromptId,
    promptsFile,    \* parsed content of system-prompts.json
    notes,          \* Map<number, Note> in insertion order
    currentNoteId,
    notesFile,      \* parsed content of notes.json
    pending,        \* summary calls in flight: [id, content] of the note sent
    usageByDate,    \* Map<date, Map<usageKey, UsageRecord>> in insertion order
    usageFile,      \* parsed content of api-usage.json
    calls,          \* history: per (date, hash, configId) the calls recorded
    sessions,       \* JsonFileSessionStore.sessions: sid -> StoredSession
    saveTimer,      \* whether JsonFileSessionStore.saveTimer holds a timer
    timers,         \* setTimeout callbacks of scheduleSave not yet run
    sessionFile,    \* parsed content of the session file
    now,            \* Date.now()
    userId,         \* req.session.userId of the client
    family,         \* the family of operations this behaviour exercises
    last,           \* the last completed operation and what it answered
    steps,          \* operations done so far
    failures        \* file writes that have failed so far

cfgVars == <<configStores, configFiles>>

promptVars == <<systemPrompts, currentPromptId, promptsFile>>

noteVars == <<notes, currentNoteId, notesFile, pending>>

usageVars == <<usageByDate, usageFile, calls>>

sessVars == <<sessions, saveTimer, timers, sessionFile, now>>

vars == <<cfgVars, promptVars, noteVars, usageVars, sessVars, userId,
          family, last, steps, failures>>

\* ----------------------------------------------------- JavaScript semantics
\* a === b: NaN is not equal to itself
StrictEq(a, b) == a # NaN /\ a = b

\* Map keys compare by SameValueZero, under which NaN equals NaN
MapHas(m, k) == \E i \in 1 .. Len(m) : m[i].id = k

MapIndex(m, k) == CHOOSE i \in 1 .. Len(m) : m[i].id = k

\* Map.set: an existing key keeps its position, a new key is appended
MapSet(m, k, v) ==
    IF MapHas(m, k) THEN [m EXCEPT ![MapIndex(m, k)] = v] ELSE Append(m, v)

MapDelete(m, k) == SelectSeq(m, LAMBDA e : e.id # k)

RECURSIVE MapFromEntries(_)
\* new Map(entries): later duplicates overwrite the value at the first position
MapFromEntries(entries) ==
    IF entries = <<>> THEN <<>>
    ELSE LET n == Len(entries)
         IN MapSet(MapFromEntries(SubSeq(entries, 1, n - 1)), entries[n].id, entries[n])

\* JSON.stringify writes NaN as null
JsonNumber(x) == IF x = NaN THEN Null ELSE x

\* ------------------------------------------------------ configuration store
NoConfig == [id |-> Undefined, data |-> 0, useGoogle |-> FALSE]

NoFile == [present |-> FALSE, activeId |-> Undefined, configs |-> <<>>]

EmptyStore == [configs |-> <<>>, activeId |-> Undefined, nextId |-> 1]

getStoreAlwaysDefault(useGoogle) == "default"

getStore(useGoogle) == IF useGoogle THEN "google" ELSE "default"

ConfigFile(useGoogle) == IF useGoogle THEN GOOGLE_CONFIG_FILE ELSE DEFAULT_CONFIG_FILE

MapGetConfig(m, k) == IF MapHas(m, k) THEN m[MapIndex(m, k)] ELSE NoConfig

SerializeConfigs(store) ==
    [present |-> TRUE,
     activeId |-> JsonNumber(store.activeId),
     configs |-> [i \in 1 .. Len(store.configs) |->
                    [store.configs[i] EXCEPT !.id = JsonNumber(@)]]]

persistConfigsNever(stores, files, useGoogle, ok) == files

persistConfigs(stores, files, useGoogle, ok) ==
    IF ok
    THEN [files EXCEPT ![ConfigFile(useGoogle)] =
            SerializeConfigs(stores[getStore(useGoogle)])]
    ELSE files

RECURSIVE MaxIdOf(_)
\* configs.reduce((m, c) => Math.max(m, c.id ?? 0), 0)
MaxIdOf(list) ==
    IF list = <<>> THEN 0
    ELSE LET n == Len(list)
             m == MaxIdOf(SubSeq(list, 1, n - 1))
             id == IF list[n].id \in {Null, Undefined} THEN 0 ELSE list[n].id
         IN IF id > m THEN id ELSE m

loadConfigsUnguarded(stores, files, useGoogle, readable) ==
    LET file == files[ConfigFile(useGoogle)]
        configs == [i \in 1 .. Len(file.configs) |->
                      [file.configs[i] EXCEPT !.useGoogle = useGoogle]]
    IN [stores EXCEPT ![getStore(useGoogle)] =
           [configs |-> MapFromEntries(configs),
            nextId |-> MaxIdOf(configs) + 1,
            activeId |-> file.activeId]]

\* readable: whether readFileSync and JSON.parse succeed; their exception is
\* caught before anything is assigned
loadConfigs(stores, files, useGoogle, readable) ==
    LET file == files[ConfigFile(useGoogle)]
        configs == [i \in 1 .. Len(file.configs) |->
                      [file.configs[i] EXCEPT !.useGoogle = useGoogle]]
    IN IF file.present /\ readable
       THEN [stores EXCEPT ![getStore(useGoogle)] =
                [configs |-> MapFromEntries(configs),
                 nextId |-> MaxIdOf(configs) + 1,
                 activeId |-> file.activeId]]
       ELSE stores

getApiConfiguration(stores, id, useGoogle) ==
    LET store == stores[getStore(useGoogle)]
    IN IF id # Undefined THEN MapGetConfig(store.configs, id)
       ELSE IF store.activeId # Undefined
            THEN MapGetConfig(store.configs, store.activeId)
            ELSE NoConfig

saveApiConfigurationKeepActive(stores, files, insertId, data, useGoogle, ok) ==
    LET key == getStore(useGoogle)
        store == stores[key]
        id == IF insertId # Undefined THEN insertId ELSE store.nextId
        config == [id |-> id, data |-> data, useGoogle |-> useGoogle]
        stores2 == [stores EXCEPT ![key] =
                      [configs |-> MapSet(store.configs, id, config),
                       activeId |-> store.activeId,
                       nextId |-> IF insertId # Undefined THEN store.nextId
                                  ELSE store.nextId + 1]]
    IN [stores |-> stores2,
        files |-> persistConfigs(stores2, files, useGoogle, ok),
        wrote |-> {ConfigFile(useGoogle)},
        ret |-> config]

saveApiConfiguration(stores, files, insertId, data, useGoogle, ok) ==
    LET key == getStore(useGoogle)
        store == stores[key]
        \* insertConfig.id ?? store.nextId++
        id == IF insertId # Undefined THEN insertId ELSE store.nextId
        config == [id |-> id, data |-> data, useGoogle |-> useGoogle]
        stores2 == [stores EXCEPT ![key] =
                      [configs |-> MapSet(store.configs, id, config),
                       activeId |-> id,
                       nextId |-> IF insertId # Undefined THEN store.nextId
                                  ELSE store.nextId + 1]]
    IN [stores |-> stores2,
        files |-> persistConfigs(stores2, files, useGoogle, ok),
        wrote |-> {ConfigFile(useGoogle)},
        ret |-> config]

deleteApiConfigurationDropsActive(stores, files, id, useGoogle, ok) ==
    LET key == getStore(useGoogle)
        store == stores[key]
        deleted == MapHas(store.configs, id)
        configs == MapDelete(store.configs, id)
        stores2 == [stores EXCEPT ![key] =
                      [store EXCEPT !.configs = configs, !.activeId = Undefined]]
    IN IF deleted
       THEN [stores |-> stores2,
             files |-> persistConfigs(stores2, files, useGoogle, ok),
             wrote |-> {ConfigFile(useGoogle)},
             ret |-> TRUE]
       ELSE [stores |-> stores, files |-> files, wrote |-> {}, ret |-> FALSE]

deleteApiConfiguration(stores, files, id, useGoogle, ok) ==
    LET key == getStore(useGoogle)
        store == stores[key]
        deleted == MapHas(store.configs, id)
        configs == MapDelete(store.configs, id)
        \* store.configs.keys().next().value
        first == IF configs = <<>> THEN Undefined ELSE configs[1].id
        activeId == IF StrictEq(store.activeId, id) THEN first ELSE store.activeId
        stores2 == [stores EXCEPT ![key] =
                      [store EXCEPT !.configs = configs, !.activeId = activeId]]
    IN IF deleted
       THEN [stores |-> stores2,
             files |-> persistConfigs(stores2, files, useGoogle, ok),
             wrote |-> {ConfigFile(useGoogle)},
             ret |-> TRUE]
       ELSE [stores |-> stores, files |-> files, wrote |-> {}, ret |-> FALSE]

setActiveApiConfigurationUnchecked(stores, files, id, useGoogle, ok) ==
    LET key == getStore(useGoogle)
        cfg == MapGetConfig(stores[key].configs, id)
        stores2 == [stores EXCEPT ![key].activeId = id]
    IN [stores |-> stores2,
        files |-> persistConfigs(stores2, files, useGoogle, ok),
        wrote |-> {ConfigFile(useGoogle)},
        ret |-> cfg]

setActiveApiConfiguration(stores, files, id, useGoogle, ok) ==
    LET key == getStore(useGoogle)
        cfg == MapGetConfig(stores[key].configs, id)
        stores2 == [stores EXCEPT ![key].activeId = id]
    IN IF cfg # NoConfig
       THEN [stores |-> stores2,
             files |-> persistConfigs(stores2, files, useGoogle, ok),
             wrote |-> {ConfigFile(useGoogle)},
             ret |-> cfg]
       ELSE [stores |-> stores, files |-> files, wrote |-> {}, ret |-> cfg]

\* ------------------------------------------------------------ system prompts
Times == 1 .. 2     \* values of the wall clock (new Date()), not monotonic

NoPrompt == [id |-> Undefined, data |-> 0, createdAt |-> Null]

NoPromptsFile == [present |-> FALSE, list |-> <<>>]

\* JSON.stringify(Array.from(this.systemPrompts.values())): a Date becomes
\* its ISO string [iso |-> time], null stays null ([iso |-> Null])
SerializePrompts(prompts) ==
    [present |-> TRUE,
     list |-> [i \in 1 .. Len(prompts) |->
                 [id |-> prompts[i].id, data |-> prompts[i].data,
                  createdAt |-> [iso |-> prompts[i].createdAt]]]]

persistPrompts(prompts, file, ok) == IF ok THEN SerializePrompts(prompts) ELSE file

loadPromptsReversed(st, file, readable) ==
    IF file.present /\ readable
    THEN [prompts |-> MapFromEntries(
                        [i \in 1 .. Len(file.list) |->
                           [id |-> file.list[Len(file.list) + 1 - i].id,
                            data |-> file.list[Len(file.list) + 1 - i].data,
                            createdAt |-> Null]]),
          nextId |-> MaxIdOf(file.list) + 1]
    ELSE st

\* st is the freshly constructed [prompts, nextId]
loadPrompts(st, file, readable) ==
    IF file.present /\ readable
    THEN [prompts |-> MapFromEntries(
                        [i \in 1 .. Len(file.list) |->
                           [id |-> file.list[i].id, data |-> file.list[i].data,
                            \* p.createdAt ? new Date(p.createdAt) : null
                            createdAt |-> IF file.list[i].createdAt.iso = Null THEN Null
                                          ELSE file.list[i].createdAt.iso]]),
          nextId |-> MaxIdOf(file.list) + 1]
    ELSE st

\* the three built-in prompts, created at the times ts[1..3]
initializeDefaultPrompts(st, ts) ==
    [prompts |-> st.prompts \o
                 [i \in 1 .. 3 |-> [id |-> st.nextId + i - 1, data |-> 1,
                                    createdAt |-> ts[i]]],
     nextId |-> st.nextId + 3]

RECURSIVE InsertByTime(_, _)
InsertByTime(sorted, p) ==
    LET time(x) == IF x.createdAt = Null THEN 0 ELSE x.createdAt
    IN IF sorted = <<>> THEN <<p>>
       ELSE IF time(p) < time(Head(sorted)) THEN <<p>> \o sorted
       ELSE <<Head(sorted)>> \o InsertByTime(Tail(sorted), p)

RECURSIVE SortByTime(_)
\* Array.prototype.sort with (a, b) => aTime - bTime: a stable sort
SortByTime(list) ==
    IF list = <<>> THEN <<>>
    ELSE InsertByTime(SortByTime(SubSeq(list, 1, Len(list) - 1)), list[Len(list)])

getAllSystemPrompts(prompts) == SortByTime(prompts)

createSystemPrompt(prompts, nextId, file, data, t, ok) ==
    LET prompt == [id |-> nextId, data |-> data, createdAt |-> t]
        prompts2 == MapSet(prompts, nextId, prompt)
    IN [prompts |-> prompts2, nextId |-> nextId + 1,
        file |-> persistPrompts(prompts2, file, ok),
        wrote |-> {PROMPTS_FILE}, ret |-> prompt]

deleteSystemPromptNoPersist(prompts, file, id, ok) ==
    [prompts |-> MapDelete(prompts, id), file |-> file, wrote |-> {},
     ret |-> MapHas(prompts, id)]

deleteSystemPrompt(prompts, file, id, ok) ==
    LET deleted == MapHas(prompts, id)
        prompts2 == MapDelete(prompts, id)
    IN IF deleted
       THEN [prompts |-> prompts2, file |-> persistPrompts(prompts2, file, ok),
             wrote |-> {PROMPTS_FILE}, ret |-> TRUE]
       ELSE [prompts |-> prompts, file |-> file, wrote |-> {}, ret |-> FALSE]

updateSystemPromptUpsert(prompts, file, id, data, ok) ==
    LET updated == [id |-> id, data |-> data, createdAt |-> Null]
        prompts2 == MapSet(prompts, id, updated)
    IN [prompts |-> prompts2, file |-> persistPrompts(prompts2, file, ok),
        wrote |-> {PROMPTS_FILE}, ret |-> updated]

updateSystemPrompt(prompts, file, id, data, ok) ==
    LET existing == IF MapHas(prompts, id) THEN prompts[MapIndex(prompts, id)]
                    ELSE NoPrompt
        \* { ...existing, ...data }
        updated == [existing EXCEPT !.data = data]
        prompts2 == MapSet(prompts, id, updated)
    IN IF existing = NoPrompt
       THEN [prompts |-> prompts, file |-> file, wrote |-> {}, ret |-> NoPrompt]
       ELSE [prompts |-> prompts2, file |-> persistPrompts(prompts2, file, ok),
             wrote |-> {PROMPTS_FILE}, ret |-> updated]

\* ------------------------------------------------------------ strings
\* a string is a sequence of one-character strings
Whitespace == {" ", "\n"}

RECURSIVE TrimStart(_)
TrimStart(str) ==
    IF str # <<>> /\ Head(str) \in Whitespace THEN TrimStart(Tail(str)) ELSE str

RECURSIVE TrimEnd(_)
TrimEnd(str) ==
    IF str # <<>> /\ str[Len(str)] \in Whitespace
    THEN TrimEnd(SubSeq(str, 1, Len(str) - 1)) ELSE str

\* String.prototype.trim
Trim(str) == TrimEnd(TrimStart(str))

\* str.slice(0, n)
SliceTo(str, n) == SubSeq(str, 1, IF Len(str) < n THEN Len(str) ELSE n)

\* str.slice(-n)
SliceLast(str, n) == SubSeq(str, IF Len(str) < n THEN 1 ELSE Len(str) - n + 1, Len(str))

RECURSIVE Split(_)
\* str.split("\n")
Split(str) ==
    IF \A i \in 1 .. Len(str) : str[i] # "\n" THEN <<str>>
    ELSE LET k == CHOOSE i \in 1 .. Len(str) :
                    str[i] = "\n" /\ \A j \in 1 .. i - 1 : str[j] # "\n"
         IN <<SubSeq(str, 1, k - 1)>> \o Split(SubSeq(str, k + 1, Len(str)))

\* ------------------------------------------------------------------- notes
TitleCap == 32

Placeholder == <<"B", "e", "z">>    \* stands for the literal title used for untitled notes

NoteContents == {<<>>, <<"a">>, <<" ", "\n", "b">>}

\* a note without the summary property has summary <<>>; summaries are never empty
NoSummary == <<>>

NoNote == [id |-> Undefined, title |-> <<>>, content |-> <<>>, summary |-> NoSummary,
           createdAt |-> Undefined, updatedAt |-> Undefined]

NoNotesFile == [present |-> FALSE, list |-> <<>>]

\* every field of a Note is a number or a string: JSON keeps them as they are
SerializeNotes(ns) == [present |-> TRUE, list |-> ns]

persistNotesNever(ns, file, ok) == file

persistNotes(ns, file, ok) == IF ok THEN SerializeNotes(ns) ELSE file

\* st is the freshly constructed [notes, nextId]; t is the time of the load
loadNotes(st, file, t, readable) ==
    IF file.present /\ readable
    THEN [notes |-> MapFromEntries(
                      [i \in 1 .. Len(file.list) |->
                         [file.list[i] EXCEPT !.createdAt =
                            IF @ \notin {Undefined, Null} THEN @
                            ELSE IF file.list[i].updatedAt \notin {Undefined, Null}
                                 THEN file.list[i].updatedAt ELSE t]]),
          nextId |-> MaxIdOf(file.list) + 1]
    ELSE st

deriveNoteTitleUncut(content) ==
    LET lines == Split(content)
        trimmed == [i \in 1 .. Len(lines) |-> Trim(lines[i])]
        found == {i \in 1 .. Len(trimmed) : Len(trimmed[i]) > 0}
    IN IF found = {} THEN <<>>
       ELSE trimmed[CHOOSE i \in found : \A j \in found : i <= j]

deriveNoteTitle(content) ==
    LET lines == Split(content)
        trimmed == [i \in 1 .. Len(lines) |-> Trim(lines[i])]
        found == {i \in 1 .. Len(trimmed) : Len(trimmed[i]) > 0}
        firstLine == IF found = {} THEN <<>>
                     ELSE trimmed[CHOOSE i \in found : \A j \in found : i <= j]
    IN SliceTo(firstLine, TitleCap)

MapGetNote(ns, id) == IF MapHas(ns, id) THEN ns[MapIndex(ns, id)] ELSE NoNote

\* insertNote has no title: the schema of the routes carries content only
createNote(ns, nextId, file, content, t, ok) ==
    LET title == deriveNoteTitle(content)
        note == [id |-> nextId, title |-> IF Len(title) > 0 THEN title ELSE Placeholder,
                 content |-> content, summary |-> NoSummary,
                 createdAt |-> t, updatedAt |-> t]
        ns2 == MapSet(ns, nextId, note)
    IN [notes |-> ns2, nextId |-> nextId + 1, file |-> persistNotes(ns2, file, ok),
        wrote |-> {NOTES_FILE}, ret |-> note]

updateNote(ns, file, id, content, t, ok) ==
    LET existing == MapGetNote(ns, id)
        title == deriveNoteTitle(content)
        updated == [existing EXCEPT
                      !.title = IF Len(title) > 0 THEN title ELSE Placeholder,
                      !.content = content,
                      !.createdAt = IF @ \notin {Undefined, Null} THEN @
                                    ELSE IF existing.updatedAt \notin {Undefined, Null}
                                         THEN existing.updatedAt ELSE t,
                      !.updatedAt = t]
        ns2 == MapSet(ns, id, updated)
    IN IF existing = NoNote
       THEN [notes |-> ns, file |-> file, wrote |-> {}, ret |-> NoNote]
       ELSE [notes |-> ns2, file |-> persistNotes(ns2, file, ok),
             wrote |-> {NOTES_FILE}, ret |-> updated]

setNoteSummaryUpsert(ns, file, id, summary, ok) ==
    LET existing == MapGetNote(ns, id)
        updated == [existing EXCEPT !.id = id, !.summary = summary]
        ns2 == MapSet(ns, id, updated)
    IN [notes |-> ns2, file |-> persistNotes(ns2, file, ok),
        wrote |-> {NOTES_FILE}, ret |-> updated]

setNoteSummary(ns, file, id, summary, ok) ==
    LET existing == MapGetNote(ns, id)
        updated == [existing EXCEPT !.summary = summary]
        ns2 == MapSet(ns, id, updated)
    IN IF existing = NoNote
       THEN [notes |-> ns, file |-> file, wrote |-> {}, ret |-> NoNote]
       ELSE [notes |-> ns2, file |-> persistNotes(ns2, file, ok),
             wrote |-> {NOTES_FILE}, ret |-> updated]

deleteNote(ns, file, id, ok) ==
    LET deleted == MapHas(ns, id)
        ns2 == MapDelete(ns, id)
    IN IF deleted
       THEN [notes |-> ns2, file |-> persistNotes(ns2, file, ok),
             wrote |-> {NOTES_FILE}, ret |-> TRUE]
       ELSE [notes |-> ns, file |-> file, wrote |-> {}, ret |-> FALSE]

clearNotes(ns, file, ok) ==
    [notes |-> <<>>, file |-> persistNotes(<<>>, file, ok), wrote |-> {NOTES_FILE}]

\* summarizeNote reaches the provider only for a non-blank note and an active
\* Google configuration; otherwise it answers null at once
summarizeNoteCalls(stores, note) ==
    /\ Trim(note.content) # <<>>
    /\ getApiConfiguration(stores, Undefined, TRUE) # NoConfig

\* ------------------------------------------------------------ usage ledger
\* a blank token, a token of two characters (with and without padding) and a
\* token of nine characters, one more than the short form of maskToken covers
Tokens == {<<" ">>, <<"a", "b">>, <<" ", "a", "b">>,
           <<"c", "d", "e", "f", "g", "h", "i", "j", "k">>}

Dates == 1 .. 2         \* toDateKey(recordedAt ?? new Date())

UsageConfigIds == {Undefined, 1}

Totals == {2, NaN}      \* NaN stands for every value Number.isFinite rejects

\* (name, model, useGoogle) of the calls made for a configuration id; Undefined
\* where the caller gives none; useGoogle is 1 for true and 0 for false
UsageMeta(configId) ==
    IF configId = Undefined THEN <<Undefined, Undefined, Undefined>>
    ELSE <<1, 1, 1>>

NoUsageFile == [present |-> FALSE, list |-> <<>>]

\* sha256(token) as 16 hex digits, taken to be collision free
hashToken(token) == [sha |-> token]

maskToken(token) ==
    LET trimmed == Trim(token)
    IN IF Len(trimmed) <= 8
       THEN IF Len(trimmed) > 0 THEN SliceTo(trimmed, 2) \o <<".", ".", ".">>
            ELSE <<"*", "*", "*">>
       ELSE SliceTo(trimmed, 4) \o <<".", ".", ".">> \o SliceLast(trimmed, 4)

getUsageKeyIgnoringConfig(tokenHash, configId) == <<tokenHash>>

\* `${tokenHash}:${configId}` or tokenHash: the parts of the key
getUsageKey(tokenHash, configId) ==
    IF configId # Undefined THEN <<tokenHash, configId>> ELSE <<tokenHash>>

KeyHas(m, k) == \E i \in 1 .. Len(m) : m[i].key = k

KeyIndex(m, k) == CHOOSE i \in 1 .. Len(m) : m[i].key = k

KeySet(m, k, e) == IF KeyHas(m, k) THEN [m EXCEPT ![KeyIndex(m, k)] = e] ELSE Append(m, e)

\* the payload of persistUsage: one entry per record, dates in Map order
RECURSIVE FlattenUsage(_)
FlattenUsage(usage) ==
    IF usage = <<>> THEN <<>>
    ELSE LET d == Head(usage)
         IN [i \in 1 .. Len(d.tokens) |->
               [date |-> d.key,
                \* usageKey.split(":")[0]
                tokenHash |-> d.tokens[i].key[1],
                record |-> d.tokens[i].record]] \o FlattenUsage(Tail(usage))

persistUsage(usage, file, ok) ==
    IF ok THEN [present |-> TRUE, list |-> FlattenUsage(usage)] ELSE file

RECURSIVE LoadUsageEntries(_, _)
LoadUsageEntries(usage, list) ==
    IF list = <<>> THEN usage
    ELSE LET entry == Head(list)
             byToken == IF KeyHas(usage, entry.date)
                        THEN usage[KeyIndex(usage, entry.date)].tokens ELSE <<>>
             key == getUsageKey(entry.tokenHash, entry.record.configId)
             byToken2 == KeySet(byToken, key, [key |-> key, record |-> entry.record])
         IN LoadUsageEntries(
                KeySet(usage, entry.date, [key |-> entry.date, tokens |-> byToken2]),
                Tail(list))

loadUsage(usage, file, readable) ==
    IF file.present /\ readable THEN LoadUsageEntries(<<>>, file.list) ELSE usage

recordApiUsage(usage, file, params, ok) ==
    LET token == Trim(params.token)
        dateKey == params.date
        tokenHash == hashToken(token)
        tokenMask == maskToken(token)
        byToken == IF KeyHas(usage, dateKey)
                   THEN usage[KeyIndex(usage, dateKey)].tokens ELSE <<>>
        usageKey == getUsageKey(tokenHash, params.configId)
        existing == IF KeyHas(byToken, usageKey)
                    THEN byToken[KeyIndex(byToken, usageKey)].record
                    ELSE [tokenMask |-> tokenMask, name |-> params.name,
                          model |-> params.model, useGoogle |-> params.useGoogle,
                          configId |-> params.configId, requests |-> 0,
                          totalTokens |-> 0]
        updated == [tokenMask |-> tokenMask,
                    name |-> IF params.name # Undefined THEN params.name
                             ELSE existing.name,
                    model |-> IF params.model # Undefined THEN params.model
                              ELSE existing.model,
                    useGoogle |-> IF params.useGoogle # Undefined THEN params.useGoogle
                                  ELSE existing.useGoogle,
                    configId |-> IF params.configId # Undefined THEN params.configId
                                 ELSE existing.configId,
                    requests |-> existing.requests + 1,
                    totalTokens |-> existing.totalTokens +
                        (IF params.totalTokens # NaN THEN params.totalTokens ELSE 0)]
        byToken2 == KeySet(byToken, usageKey, [key |-> usageKey, record |-> updated])
        usage2 == KeySet(usage, dateKey, [key |-> dateKey, tokens |-> byToken2])
    IN IF token = <<>>
       THEN [usage |-> usage, file |-> file, wrote |-> {}]
       ELSE [usage |-> usage2, file |-> persistUsage(usage2, file, ok),
             wrote |-> {USAGE_FILE}]

\* ------------------------------------------------------------ session store
Sids == 1 .. 2

StartTime == 2      \* Date.now() at the start; 0 is the epoch and 1 is past

Far == 9            \* an instant later than every Date.now() of a behaviour

NoCookie == [present |-> FALSE, expires |-> Undefined, maxAge |-> Undefined]

\* session.cookie: expires is a Date (its getTime(), NaN for an invalid Date)
\* or absent, maxAge a number of milliseconds or absent
Cookies ==
    {NoCookie, [present |-> TRUE, expires |-> Far, maxAge |-> 0]} \cup
    {[present |-> TRUE, expires |-> e, maxAge |-> Undefined] : e \in {NaN, 0, 1, Far}} \cup
    {[present |-> TRUE, expires |-> Undefined, maxAge |-> m] : m \in {Undefined, 0, 1}}

NoData == [cookie |-> NoCookie, payload |-> Undefined]

\* SessionData: the cookie and the rest of the session
SessionData == [cookie : Cookies, payload : {1, 2}]

NoRecord == [present |-> FALSE, data |-> NoData, expiresAt |-> Undefined]

getExpiresAt(session, t) ==
    LET cookie == session.cookie
    IN IF ~cookie.present THEN Null
       ELSE IF cookie.expires # Undefined
            THEN IF cookie.expires # NaN THEN cookie.expires ELSE Null
            ELSE IF cookie.maxAge # Undefined THEN t + cookie.maxAge
            ELSE Null

\* !record.expiresAt holds for undefined, null, 0 and NaN
isExpired(record, t) ==
    IF record.expiresAt \in {Undefined, Null, 0, NaN} THEN FALSE
    ELSE record.expiresAt <= t

pruneExpired(ss, t) ==
    [sid \in Sids |->
        IF /\ ss[sid].present
           /\ ss[sid].expiresAt \notin {Undefined, Null, 0, NaN}
           /\ ss[sid].expiresAt <= t
        THEN NoRecord ELSE ss[sid]]

scheduleSaveAlways(timer, pendingTimers) ==
    [saveTimer |-> TRUE, timers |-> pendingTimers + 1]

scheduleSaveNever(timer, pendingTimers) ==
    [saveTimer |-> timer, timers |-> pendingTimers]

scheduleSave(timer, pendingTimers) ==
    IF timer THEN [saveTimer |-> timer, timers |-> pendingTimers]
    ELSE [saveTimer |-> TRUE, timers |-> pendingTimers + 1]

set(ss, sid, session, t) ==
    [sessions |-> [ss EXCEPT ![sid] = [present |-> TRUE, data |-> session,
                                       expiresAt |-> getExpiresAt(session, t)]],
     scheduled |-> TRUE]

touchAlways(ss, sid, session, t) == set(ss, sid, session, t)

touch(ss, sid, session, t) ==
    IF ss[sid].present
    THEN [sessions |-> [ss EXCEPT ![sid] = [present |-> TRUE, data |-> session,
                                            expiresAt |-> getExpiresAt(session, t)]],
          scheduled |-> TRUE]
    ELSE [sessions |-> ss, scheduled |-> FALSE]


\* ---------------------------------------------------------- authentication
\* the default user the constructor adds
users == <<[id |-> 1, username |-> "ldy", password |-> "123d5812dd3DDD"]>>

NoUser == [id |-> Undefined, username |-> "", password |-> ""]

getUserByUsernameAny(us, username) == us[1]

\* Array.from(this.users.values()).find((user) => user.username === username)
getUserByUsername(us, username) ==
    IF \E i \in 1 .. Len(us) : us[i].username = username
    THEN us[CHOOSE i \in 1 .. Len(us) :
                /\ us[i].username = username
                /\ \A j \in 1 .. i - 1 : us[j].username # username]
    ELSE NoUser

ApiGateOpen(path, sessionUserId) == TRUE

\* the middleware on /api: TRUE where it calls next(), FALSE where it answers 401
ApiGate(path, sessionUserId) ==
    \/ path \in {"/login", "/logout", "/session"}
    \/ sessionUserId # Undefined

\* ------------------------------------------------------------------ actions
NoOp == [op |-> "init", useGoogle |-> FALSE, id |-> Undefined, status |-> 0,
         ret |-> NoConfig, wrote |-> {}, ok |-> TRUE, date |-> 0, total |-> 0,
         outbound |-> 0, valid |-> TRUE, unreadable |-> {},
         messages |-> <<>>, systemPrompt |-> <<>>, contents |-> <<>>,
         upstream |-> "none", upstreamStatus |-> 0]

\* whether fs.writeFileSync succeeds: an input of every persisting operation
WriteOutcomes == IF failures < MaxWriteFailures THEN BOOLEAN ELSE {TRUE}

\* ok is FALSE when the operation's file write was attempted and failed
Count(ok) == /\ steps' = steps + 1
             /\ failures' = IF ok THEN failures ELSE failures + 1
             /\ UNCHANGED <<family, sessVars, userId>>

RouteIds == ExplicitIds \cup {NaN}      \* Number(req.params.id), parseInt(..)

\* POST /api/config?google=..: req.body.id ? Number(req.body.id) : undefined
PostConfig ==
    \E useGoogle \in BOOLEAN, bodyId \in ExplicitIds \cup {Undefined, NaN},
       data \in Data, ok \in WriteOutcomes :
        LET r == saveApiConfiguration(configStores, configFiles, bodyId, data, useGoogle, ok)
        IN /\ ApiGate("/config", userId)
           /\ steps < MaxSteps
           /\ bodyId = Undefined => configStores[getStore(useGoogle)].nextId <= MaxId
           /\ configStores' = r.stores
           /\ configFiles' = r.files
           /\ last' = [NoOp EXCEPT !.op = "save", !.useGoogle = useGoogle,
                         !.id = bodyId, !.status = 200, !.ret = r.ret,
                         !.wrote = r.wrote, !.ok = ok]
           /\ Count(ok)
           /\ UNCHANGED <<promptVars, noteVars, usageVars>>

\* POST /api/configs/:id/activate?google=..
ActivateConfig ==
    \E useGoogle \in BOOLEAN, id \in RouteIds, ok \in WriteOutcomes :
        LET r == setActiveApiConfiguration(configStores, configFiles, id, useGoogle, ok)
            written == ok \/ r.wrote = {}
        IN /\ ApiGate("/configs/:id/activate", userId)
           /\ steps < MaxSteps
           /\ r.wrote = {} => ok
           /\ configStores' = r.stores
           /\ configFiles' = r.files
           /\ last' = [NoOp EXCEPT !.op = "activate", !.useGoogle = useGoogle,
                         !.id = id, !.status = IF r.ret = NoConfig THEN 404 ELSE 200,
                         !.ret = r.ret, !.wrote = r.wrote, !.ok = written]
           /\ Count(written)
           /\ UNCHANGED <<promptVars, noteVars, usageVars>>

\* DELETE /api/configs/:id?google=..
DeleteConfig ==
    \E useGoogle \in BOOLEAN, id \in RouteIds, ok \in WriteOutcomes :
        LET r == deleteApiConfiguration(configStores, configFiles, id, useGoogle, ok)
        IN /\ ApiGate("/configs/:id", userId)
           /\ steps < MaxSteps
           /\ r.wrote = {} => ok
           /\ configStores' = r.stores
           /\ configFiles' = r.files
           /\ last' = [NoOp EXCEPT !.op = "delete", !.useGoogle = useGoogle,
                         !.id = id, !.status = IF r.ret THEN 204 ELSE 404,
                         !.wrote = r.wrote, !.ok = ok]
           /\ Count(ok)
           /\ UNCHANGED <<promptVars, noteVars, usageVars>>

\* what the single outbound provider call of a chat request does
\* what the provider call does. fetch: it answers 2xx, it answers a non-2xx
\* status, it answers a non-2xx status and the body cannot be read, it throws.
\* generateContent: it resolves, or it rejects (as it does when the provider
\* answers a non-2xx status); the import of the SDK can fail before any call
ChatOutcomes == {"ok", "status", "statusNoBody", "throw", "noSdk"}

\* response.status of a provider that refuses the request
UpstreamStatuses == {429, 503}

ChatResponseStatusAlways500(config, called, outcome, upstreamStatus) ==
    IF config = NoConfig THEN 400 ELSE IF called /\ outcome = "ok" THEN 200 ELSE 500

\* the status of the response of POST /api/chat
ChatResponseStatus(config, called, outcome, upstreamStatus) ==
    IF config = NoConfig THEN 400
    ELSE IF ~called THEN 500
    ELSE IF outcome = "ok" THEN 200
    ELSE IF outcome = "status" THEN upstreamStatus
    ELSE 500

Roles == {"user", "assistant", "system"}

Texts == {<<"x">>, <<"y">>}

ChatMessages == UNION {[1 .. n -> [role : Roles, content : Texts]] : n \in 0 .. MaxMessages}

\* req.body of POST /api/chat; a systemPrompt of <<>> stands for every falsy
\* value (undefined, null, "")
ChatBodies ==
    IF family = "translate"
    THEN [messages : ChatMessages, systemPrompt : {<<>>, <<"p">>}]
    ELSE {[messages |-> <<[role |-> "user", content |-> <<"x">>]>>, systemPrompt |-> <<>>]}

\* usage.total_tokens of the provider's answer and the day of the request; they
\* vary where the usage ledger is looked at
ChatTotals == IF family = "chat" THEN Totals \cup {Undefined} ELSE {Undefined}

ChatDates == IF family = "chat" THEN Dates ELSE {1}

\* stands for the literal label put in front of the system prompt
InstructionLabel == <<"I", ":", " ">>

\* the contents handed to ai.models.generateContent
googleMessages(messages, systemPrompt) ==
    (IF systemPrompt # <<>>
     THEN <<[role |-> "user", text |-> InstructionLabel \o systemPrompt]>>
     ELSE <<>>)
    \o [i \in 1 .. Len(messages) |->
          [role |-> IF messages[i].role = "assistant" THEN "model" ELSE "user",
           text |-> messages[i].content]]

\* POST /api/chat?google=..; iterable: req.body.messages can be spread
PostChat ==
    \E useGoogle \in BOOLEAN, outcome \in ChatOutcomes, body \in ChatBodies,
       upstreamStatus \in UpstreamStatuses, iterable \in BOOLEAN,
       total \in ChatTotals, date \in ChatDates :
        LET config == getApiConfiguration(configStores, Undefined, useGoogle)
            called == /\ config # NoConfig
                      /\ iterable
                      /\ ~(useGoogle /\ outcome = "noSdk")
        IN /\ ApiGate("/chat", userId)
           /\ steps < MaxSteps
           /\ ~useGoogle => outcome # "noSdk"
           /\ useGoogle => outcome \notin {"status", "statusNoBody"}
           /\ outcome # "status" => upstreamStatus = 429
           /\ last' = [NoOp EXCEPT !.op = "chat", !.useGoogle = useGoogle,
                         !.ret = config, !.date = date, !.total = total,
                         !.valid = iterable,
                         !.messages = IF iterable THEN body.messages ELSE <<>>,
                         !.systemPrompt = body.systemPrompt,
                         !.contents = IF called /\ useGoogle
                                      THEN googleMessages(body.messages, body.systemPrompt)
                                      ELSE <<>>,
                         !.outbound = IF called THEN 1 ELSE 0,
                         !.upstream = IF called THEN outcome ELSE "none",
                         !.upstreamStatus = IF called /\ outcome = "status"
                                            THEN upstreamStatus ELSE 0,
                         !.status = ChatResponseStatus(config, called, outcome,
                                                       upstreamStatus)]
           /\ Count(TRUE)
           /\ UNCHANGED <<cfgVars, promptVars, noteVars, usageVars>>

\* the status of the response of POST /api/config/test
TestResponseStatus(config, called, outcome, upstreamStatus) ==
    IF config = NoConfig THEN 400
    ELSE IF ~called THEN 500
    ELSE IF outcome = "ok" THEN 200
    ELSE IF outcome = "status" THEN 400
    ELSE 500

\* POST /api/config/test?google=..
TestConfig ==
    \E useGoogle \in BOOLEAN, outcome \in ChatOutcomes,
       upstreamStatus \in UpstreamStatuses :
        LET config == getApiConfiguration(configStores, Undefined, useGoogle)
            called == config # NoConfig /\ ~(useGoogle /\ outcome = "noSdk")
        IN /\ ApiGate("/config/test", userId)
           /\ steps < MaxSteps
           /\ ~useGoogle => outcome # "noSdk"
           /\ useGoogle => outcome \notin {"status", "statusNoBody"}
           /\ outcome # "status" => upstreamStatus = 429
           /\ last' = [NoOp EXCEPT !.op = "test", !.useGoogle = useGoogle,
                         !.ret = config,
                         !.outbound = IF called THEN 1 ELSE 0,
                         !.upstream = IF called THEN outcome ELSE "none",
                         !.upstreamStatus = IF called /\ outcome = "status"
                                            THEN upstreamStatus ELSE 0,
                         !.status = TestResponseStatus(config, called, outcome,
                                                       upstreamStatus)]
           /\ Count(TRUE)
           /\ UNCHANGED <<cfgVars, promptVars, noteVars, usageVars>>

\* POST /api/prompts
PostPrompt ==
    \E data \in Data, t \in Times, ok \in WriteOutcomes :
        LET r == createSystemPrompt(systemPrompts, currentPromptId, promptsFile, data, t, ok)
        IN /\ ApiGate("/prompts", userId)
           /\ steps < MaxPromptSteps
           /\ currentPromptId <= MaxPromptId
           /\ systemPrompts' = r.prompts
           /\ currentPromptId' = r.nextId
           /\ promptsFile' = r.file
           /\ last' = [NoOp EXCEPT !.op = "createPrompt", !.id = r.ret.id,
                         !.status = 201, !.wrote = r.wrote, !.ok = ok]
           /\ Count(ok)
           /\ UNCHANGED <<cfgVars, noteVars, usageVars>>

PromptRouteIds == 1 .. MaxPromptId \cup {NaN}

\* PUT /api/prompts/:id
PutPrompt ==
    \E id \in PromptRouteIds, body \in Data \cup {Undefined}, ok \in WriteOutcomes :
        \* insertSystemPromptSchema.parse(req.body) throws for the body Undefined
        LET r == IF body = Undefined
                 THEN [prompts |-> systemPrompts, file |-> promptsFile,
                       wrote |-> {}, ret |-> NoPrompt]
                 ELSE updateSystemPrompt(systemPrompts, promptsFile, id, body, ok)
        IN /\ ApiGate("/prompts/:id", userId)
           /\ steps < MaxPromptSteps
           /\ r.wrote = {} => ok
           /\ systemPrompts' = r.prompts
           /\ promptsFile' = r.file
           /\ last' = [NoOp EXCEPT !.op = "updatePrompt", !.id = id,
                         !.valid = body # Undefined,
                         !.status = IF body = Undefined THEN 400
                                    ELSE IF r.ret = NoPrompt THEN 404 ELSE 200,
                         !.wrote = r.wrote, !.ok = ok]
           /\ Count(ok)
           /\ UNCHANGED <<cfgVars, currentPromptId, noteVars, usageVars>>

\* DELETE /api/prompts/:id
DeletePrompt ==
    \E id \in PromptRouteIds, ok \in WriteOutcomes :
        LET r == deleteSystemPrompt(systemPrompts, promptsFile, id, ok)
        IN /\ ApiGate("/prompts/:id", userId)
           /\ steps < MaxPromptSteps
           /\ r.wrote = {} => ok
           /\ systemPrompts' = r.prompts
           /\ promptsFile' = r.file
           /\ last' = [NoOp EXCEPT !.op = "deletePrompt", !.id = id,
                         !.status = IF r.ret THEN 204 ELSE 404,
                         !.wrote = r.wrote, !.ok = ok]
           /\ Count(ok)
           /\ UNCHANGED <<cfgVars, currentPromptId, noteVars, usageVars>>


NoteRouteIds == 1 .. MaxNoteId \cup {NaN}

\* the text the provider answers for a note content
SummaryOf(content) == <<"s">> \o content

RemoveAt(seq, i) == SubSeq(seq, 1, i - 1) \o SubSeq(seq, i + 1, Len(seq))

\* POST /api/notes, up to the summary call
PostNote ==
    \E content \in NoteContents, t \in Times, ok \in WriteOutcomes :
        LET r == createNote(notes, currentNoteId, notesFile, content, t, ok)
            call == summarizeNoteCalls(configStores, r.ret)
        IN /\ ApiGate("/notes", userId)
           /\ steps < (IF family = "race" THEN MaxRaceSteps ELSE MaxSteps)
           /\ currentNoteId <= MaxNoteId
           /\ call => Len(pending) < MaxPending
           /\ notes' = r.notes
           /\ currentNoteId' = r.nextId
           /\ notesFile' = r.file
           /\ pending' = IF call
                         THEN Append(pending, [id |-> r.ret.id, content |-> r.ret.content,
                                               status |-> 201])
                         ELSE pending
           /\ last' = [NoOp EXCEPT !.op = "createNote", !.id = r.ret.id,
                         !.status = IF call THEN 0 ELSE 201,
                         !.wrote = r.wrote, !.ok = ok]
           /\ Count(ok)
           /\ UNCHANGED <<cfgVars, promptVars, usageVars>>

\* PUT /api/notes/:id, up to the summary call
PutNote ==
    \E id \in NoteRouteIds, content \in NoteContents, t \in Times, ok \in WriteOutcomes :
        LET r == updateNote(notes, notesFile, id, content, t, ok)
            call == r.ret # NoNote /\ summarizeNoteCalls(configStores, r.ret)
        IN /\ ApiGate("/notes/:id", userId)
           /\ steps < (IF family = "race" THEN MaxRaceSteps ELSE MaxSteps)
           /\ r.wrote = {} => ok
           /\ call => Len(pending) < MaxPending
           /\ notes' = r.notes
           /\ notesFile' = r.file
           /\ pending' = IF call
                         THEN Append(pending, [id |-> r.ret.id, content |-> r.ret.content,
                                               status |-> 200])
                         ELSE pending
           /\ last' = [NoOp EXCEPT !.op = "updateNote", !.id = id,
                         !.status = IF r.ret = NoNote THEN 404
                                    ELSE IF call THEN 0 ELSE 200,
                         !.wrote = r.wrote, !.ok = ok]
           /\ Count(ok)
           /\ UNCHANGED <<cfgVars, promptVars, currentNoteId, usageVars>>

\* the rest of POST /api/notes or PUT /api/notes/:id once summarizeNote answers
SummaryDone ==
    \E i \in 1 .. Len(pending), answered \in BOOLEAN, ok \in WriteOutcomes :
        LET p == pending[i]
            r == IF answered
                 THEN setNoteSummary(notes, notesFile, p.id, SummaryOf(p.content), ok)
                 ELSE [notes |-> notes, file |-> notesFile, wrote |-> {}, ret |-> NoNote]
        IN /\ steps < (IF family = "race" THEN MaxRaceSteps ELSE MaxSteps)
           /\ r.wrote = {} => ok
           /\ notes' = r.notes
           /\ notesFile' = r.file
           /\ pending' = RemoveAt(pending, i)
           /\ last' = [NoOp EXCEPT !.op = "summaryDone", !.id = p.id,
                         !.upstream = IF answered THEN "ok" ELSE "throw",
                         !.status = p.status, !.wrote = r.wrote, !.ok = ok]
           /\ Count(ok)
           /\ UNCHANGED <<cfgVars, promptVars, currentNoteId, usageVars>>

\* a line of n letters
Letters(n) == [i \in 1 .. n |-> "a"]

\* contents of notes for the title: blank ones, several lines, and first lines
\* of TitleCap letters and more, with and without blanks around them
TitleContents ==
    NoteContents
    \cup {<<c>> : c \in {" ", "\n"}}
    \cup {<<c, d>> : c, d \in {"a", " ", "\n"}}
    \cup {<<"\n", " ", "a", " ", "\n", "b">>,
          Letters(TitleCap),
          Letters(TitleCap + 1),
          <<" ">> \o Letters(TitleCap) \o <<" ", "\n", "b">>,
          <<"\n", " ">> \o Letters(TitleCap - 1) \o <<" ", "b", "b", " ">>}

\* storage.createNote({content})
CreateNoteCall ==
    \E content \in TitleContents, t \in Times, ok \in WriteOutcomes :
        LET r == createNote(notes, currentNoteId, notesFile, content, t, ok)
        IN /\ steps < MaxTitleSteps
           /\ currentNoteId <= MaxNoteId
           /\ notes' = r.notes
           /\ currentNoteId' = r.nextId
           /\ notesFile' = r.file
           /\ last' = [NoOp EXCEPT !.op = "createNote", !.id = r.ret.id,
                         !.wrote = r.wrote, !.ok = ok]
           /\ Count(ok)
           /\ UNCHANGED <<cfgVars, promptVars, pending, usageVars>>

\* storage.updateNote(id, {content})
UpdateNoteCall ==
    \E id \in NoteRouteIds, content \in TitleContents, t \in Times, ok \in WriteOutcomes :
        LET r == updateNote(notes, notesFile, id, content, t, ok)
        IN /\ steps < MaxTitleSteps
           /\ r.wrote = {} => ok
           /\ notes' = r.notes
           /\ notesFile' = r.file
           /\ last' = [NoOp EXCEPT !.op = "updateNote", !.id = id,
                         !.wrote = r.wrote, !.ok = ok]
           /\ Count(ok)
           /\ UNCHANGED <<cfgVars, promptVars, currentNoteId, pending, usageVars>>

\* DELETE /api/notes/:id
DeleteNoteReq ==
    \E id \in NoteRouteIds, ok \in WriteOutcomes :
        LET r == deleteNote(notes, notesFile, id, ok)
        IN /\ ApiGate("/notes/:id", userId)
           /\ steps < (IF family = "race" THEN MaxRaceSteps ELSE MaxSteps)
           /\ r.wrote = {} => ok
           /\ notes' = r.notes
           /\ notesFile' = r.file
           /\ last' = [NoOp EXCEPT !.op = "deleteNote", !.id = id,
                         !.status = IF r.ret THEN 204 ELSE 404,
                         !.wrote = r.wrote, !.ok = ok]
           /\ Count(ok)
           /\ UNCHANGED <<cfgVars, promptVars, currentNoteId, pending, usageVars>>

\* DELETE /api/notes
ClearNotesReq ==
    \E ok \in WriteOutcomes :
        LET r == clearNotes(notes, notesFile, ok)
        IN /\ ApiGate("/notes", userId)
           /\ steps < (IF family = "race" THEN MaxRaceSteps ELSE MaxSteps)
           /\ notes' = r.notes
           /\ notesFile' = r.file
           /\ last' = [NoOp EXCEPT !.op = "clearNotes", !.status = 204,
                         !.wrote = r.wrote, !.ok = ok]
           /\ Count(ok)
           /\ UNCHANGED <<cfgVars, promptVars, currentNoteId, pending, usageVars>>

UsageHashes == {hashToken(Trim(tk)) : tk \in {t \in Tokens : Trim(t) # <<>>}}

Triples == Dates \X UsageHashes \X UsageConfigIds

\* storage.recordApiUsage(params)
RecordUsage ==
    \E token \in Tokens, date \in Dates, configId \in UsageConfigIds,
       total \in Totals, ok \in WriteOutcomes :
        LET meta == UsageMeta(configId)
            params == [token |-> token, date |-> date, configId |-> configId,
                       totalTokens |-> total, name |-> meta[1], model |-> meta[2],
                       useGoogle |-> meta[3]]
            r == recordApiUsage(usageByDate, usageFile, params, ok)
            triple == <<date, hashToken(Trim(token)), configId>>
        IN /\ steps < MaxCalls
           /\ r.wrote = {} => ok
           /\ usageByDate' = r.usage
           /\ usageFile' = r.file
           /\ calls' = IF Trim(token) = <<>> THEN calls
                       ELSE [calls EXCEPT ![triple] =
                               [n |-> @.n + 1,
                                sum |-> @.sum + (IF total = NaN THEN 0 ELSE total)]]
           /\ last' = [NoOp EXCEPT !.op = "recordUsage", !.date = date,
                         !.id = configId, !.total = total, !.wrote = r.wrote, !.ok = ok]
           /\ Count(ok)
           /\ UNCHANGED <<cfgVars, promptVars, noteVars>>

DefaultTimes == {ts \in [1 .. 3 -> Times] : ts[1] <= ts[2] /\ ts[2] <= ts[3]}

\* new MemStorage(): the process restarts and loads the persisted files, of
\* which those in unreadable cannot be read or parsed this time
Construct(unreadable) ==
    LET loaded == loadPrompts([prompts |-> <<>>, nextId |-> 1], promptsFile,
                              PROMPTS_FILE \notin unreadable)
        empty == Len(loaded.prompts) = 0
    IN \E ts \in IF empty THEN DefaultTimes ELSE {[i \in 1 .. 3 |-> 1]},
          t \in Times, ok \in WriteOutcomes :
        LET seeded == initializeDefaultPrompts(loaded, ts)
            loadedNotes == loadNotes([notes |-> <<>>, nextId |-> 1], notesFile, t,
                                     NOTES_FILE \notin unreadable)
        IN /\ steps < (IF family = "prompts" THEN MaxPromptSteps ELSE MaxSteps)
           /\ ~empty => ok
           /\ systemPrompts' = IF empty THEN seeded.prompts ELSE loaded.prompts
           /\ currentPromptId' = IF empty THEN seeded.nextId ELSE loaded.nextId
           /\ promptsFile' = IF empty THEN persistPrompts(seeded.prompts, promptsFile, ok)
                             ELSE promptsFile
           /\ notes' = loadedNotes.notes
           /\ currentNoteId' = loadedNotes.nextId
           /\ pending' = <<>>
           /\ usageByDate' = loadUsage(<<>>, usageFile, USAGE_FILE \notin unreadable)
           /\ configStores' = loadConfigs(loadConfigs(
                                 [k \in {"default", "google"} |-> EmptyStore],
                                 configFiles, FALSE, DEFAULT_CONFIG_FILE \notin unreadable),
                                 configFiles, TRUE, GOOGLE_CONFIG_FILE \notin unreadable)
           /\ last' = [NoOp EXCEPT !.op = "restart", !.ok = ok,
                         !.unreadable = unreadable,
                         !.wrote = IF empty THEN {PROMPTS_FILE} ELSE {}]
           /\ Count(ok)
           /\ UNCHANGED <<configFiles, notesFile, usageFile, calls>>

\* a restart that finds every file readable
Restart == Construct({})

\* a restart that finds one file unreadable or not parseable
RestartUnreadable ==
    \E f \in {DEFAULT_CONFIG_FILE, GOOGLE_CONFIG_FILE, PROMPTS_FILE, NOTES_FILE,
              USAGE_FILE} : Construct({f})

\* POST /api/login
Login ==
    \E username \in {"ldy", "eve"}, password \in {"123d5812dd3DDD", "wrong"} :
        LET user == getUserByUsername(users, username)
            rejected == user = NoUser \/ user.password # password
        IN /\ steps < MaxSteps
           \* req.session.regenerate, then session.userId = user.id
           /\ userId' = IF rejected THEN userId ELSE user.id
           /\ last' = [NoOp EXCEPT !.op = "login",
                         !.status = IF rejected THEN 401 ELSE 200,
                         !.ret = [username |-> username, password |-> password]]
           /\ steps' = steps + 1
           /\ UNCHANGED <<cfgVars, promptVars, noteVars, usageVars, sessVars,
                          family, failures>>

\* POST /api/logout: req.session.destroy
Logout ==
    /\ steps < MaxSteps
    /\ userId' = Undefined
    /\ last' = [NoOp EXCEPT !.op = "logout", !.status = 204]
    /\ steps' = steps + 1
    /\ UNCHANGED <<cfgVars, promptVars, noteVars, usageVars, sessVars, family, failures>>

\* GET /api/session
GetSession ==
    /\ steps < MaxSteps
    /\ last' = [NoOp EXCEPT !.op = "session",
                  !.status = IF userId # Undefined THEN 200 ELSE 401]
    /\ Count(TRUE)
    /\ UNCHANGED <<cfgVars, promptVars, noteVars, usageVars>>

\* a request to a protected path that the middleware answers with 401
Unauthorized ==
    \E path \in {"/config", "/chat", "/prompts/:id", "/notes", "/usage"} :
        /\ ~ApiGate(path, userId)
        /\ steps < MaxSteps
        /\ last' = [NoOp EXCEPT !.op = "unauthorized", !.status = 401]
        /\ Count(TRUE)
        /\ UNCHANGED <<cfgVars, promptVars, noteVars, usageVars>>

\* what every operation of the session store leaves alone
SessionFrame ==
    /\ steps' = steps + 1
    /\ UNCHANGED <<cfgVars, promptVars, noteVars, usageVars, userId, family, now>>

\* JsonFileSessionStore.get(sid, callback)
SessionGet ==
    \E sid \in Sids :
        LET record == sessions[sid]
            evict == record.present /\ isExpired(record, now)
            timer == IF evict THEN scheduleSave(saveTimer, timers)
                     ELSE [saveTimer |-> saveTimer, timers |-> timers]
        IN /\ steps < MaxSessionSteps
           /\ sessions' = IF evict THEN [sessions EXCEPT ![sid] = NoRecord] ELSE sessions
           /\ saveTimer' = timer.saveTimer
           /\ timers' = timer.timers
           /\ last' = [NoOp EXCEPT !.op = "get", !.id = sid,
                         !.ret = IF record.present /\ ~evict THEN record.data
                                 ELSE NoData]
           /\ SessionFrame
           /\ UNCHANGED <<sessionFile, failures>>

\* JsonFileSessionStore.set(sid, session, callback)
SessionSet ==
    \E sid \in Sids, session \in SessionData :
        LET r == set(sessions, sid, session, now)
            timer == scheduleSave(saveTimer, timers)
        IN /\ steps < MaxSessionSteps
           /\ sessions' = r.sessions
           /\ saveTimer' = timer.saveTimer
           /\ timers' = timer.timers
           /\ last' = [NoOp EXCEPT !.op = "set", !.id = sid, !.ret = session]
           /\ SessionFrame
           /\ UNCHANGED <<sessionFile, failures>>

\* JsonFileSessionStore.destroy(sid, callback)
SessionDestroy ==
    \E sid \in Sids :
        LET timer == scheduleSave(saveTimer, timers)
        IN /\ steps < MaxSessionSteps
           /\ sessions' = [sessions EXCEPT ![sid] = NoRecord]
           /\ saveTimer' = timer.saveTimer
           /\ timers' = timer.timers
           /\ last' = [NoOp EXCEPT !.op = "destroy", !.id = sid]
           /\ SessionFrame
           /\ UNCHANGED <<sessionFile, failures>>

\* JsonFileSessionStore.touch(sid, session, callback)
SessionTouch ==
    \E sid \in Sids, session \in SessionData :
        LET r == touch(sessions, sid, session, now)
            timer == IF r.scheduled THEN scheduleSave(saveTimer, timers)
                     ELSE [saveTimer |-> saveTimer, timers |-> timers]
        IN /\ steps < MaxSessionSteps
           /\ sessions' = r.sessions
           /\ saveTimer' = timer.saveTimer
           /\ timers' = timer.timers
           /\ last' = [NoOp EXCEPT !.op = "touch", !.id = sid, !.ret = session]
           /\ SessionFrame
           /\ UNCHANGED <<sessionFile, failures>>

\* the callback of scheduleSave: clears saveTimer, prunes and persists
SaveTimerFires ==
    \E ok \in WriteOutcomes :
        LET pruned == pruneExpired(sessions, now)
        IN /\ timers > 0
           /\ saveTimer' = FALSE
           /\ timers' = timers - 1
           /\ sessions' = pruned
           /\ sessionFile' = IF ok THEN pruned ELSE sessionFile
           /\ failures' = IF ok THEN failures ELSE failures + 1
           /\ last' = [NoOp EXCEPT !.op = "persist", !.wrote = {"sessionFile"},
                         !.ok = ok]
           /\ SessionFrame

\* time passes
Tick ==
    /\ now < MaxNow
    /\ now' = now + 1
    /\ UNCHANGED <<cfgVars, promptVars, noteVars, usageVars, userId, family,
                   sessions, saveTimer, timers, sessionFile, last, steps, failures>>

\* the state after the first construction, with no file on disk
InitFresh ==
    LET seeded == initializeDefaultPrompts([prompts |-> <<>>, nextId |-> 1],
                                           [i \in 1 .. 3 |-> 1])
    IN /\ configStores = [k \in {"default", "google"} |-> EmptyStore]
       /\ configFiles = [f \in {DEFAULT_CONFIG_FILE, GOOGLE_CONFIG_FILE} |-> NoFile]
       /\ systemPrompts = seeded.prompts
       /\ currentPromptId = seeded.nextId
       /\ promptsFile = persistPrompts(seeded.prompts, NoPromptsFile, TRUE)
       /\ notes = <<>>
       /\ currentNoteId = 1
       /\ notesFile = NoNotesFile
       /\ pending = <<>>
       /\ usageByDate = <<>>
       /\ usageFile = NoUsageFile
       /\ calls = [tr \in Triples |-> [n |-> 0, sum |-> 0]]
       /\ sessions = [sid \in Sids |-> NoRecord]
       /\ saveTimer = FALSE
       /\ timers = 0
       /\ sessionFile = [sid \in Sids |-> NoRecord]
       /\ now = StartTime
       /\ last = NoOp
       /\ steps = 0
       /\ failures = 0

\* the state after a construction that found one Google configuration on disk
InitWithGoogle ==
    LET seeded == initializeDefaultPrompts([prompts |-> <<>>, nextId |-> 1],
                                           [i \in 1 .. 3 |-> 1])
        saved == saveApiConfiguration([k \in {"default", "google"} |-> EmptyStore],
                     [f \in {DEFAULT_CONFIG_FILE, GOOGLE_CONFIG_FILE} |-> NoFile],
                     Undefined, 1, TRUE, TRUE)
    IN /\ configFiles = saved.files
       /\ configStores = loadConfigs(loadConfigs(
                             [k \in {"default", "google"} |-> EmptyStore],
                             configFiles, FALSE, TRUE), configFiles, TRUE, TRUE)
       /\ systemPrompts = seeded.prompts
       /\ currentPromptId = seeded.nextId
       /\ promptsFile = persistPrompts(seeded.prompts, NoPromptsFile, TRUE)
       /\ notes = <<>>
       /\ currentNoteId = 1
       /\ notesFile = NoNotesFile
       /\ pending = <<>>
       /\ usageByDate = <<>>
       /\ usageFile = NoUsageFile
       /\ calls = [tr \in Triples |-> [n |-> 0, sum |-> 0]]
       /\ sessions = [sid \in Sids |-> NoRecord]
       /\ saveTimer = FALSE
       /\ timers = 0
       /\ sessionFile = [sid \in Sids |-> NoRecord]
       /\ now = StartTime
       /\ last = NoOp
       /\ steps = 0
       /\ failures = 0

NextConfig == PostConfig \/ ActivateConfig \/ DeleteConfig \/ Restart

NextChat == PostConfig \/ PostChat

NextPrompts == PostPrompt \/ PutPrompt \/ DeletePrompt \/ Restart

NextNotes == PostNote \/ PutNote \/ SummaryDone \/ DeleteNoteReq \/ ClearNotesReq
                \/ Restart

NextUsage == RecordUsage

Families == {"config", "prompts", "notes", "usage"}

InitConfig == family = "config" /\ userId = 1 /\ InitFresh

InitChat == family = "chat" /\ userId = 1 /\ InitFresh

InitPrompts == family = "prompts" /\ userId = 1 /\ InitFresh

InitTitles == family = "titles" /\ userId = 1 /\ InitFresh

NextTitles == CreateNoteCall \/ UpdateNoteCall

\* createNote and updateNote over contents that exercise the title
SpecTitles == InitTitles /\ [][NextTitles]_vars

InitTranslate == family = "translate" /\ userId = 1 /\ InitWithGoogle

NextTranslate == PostChat \/ DeleteConfig

\* chat requests over bodies of several messages, with a Google configuration
SpecTranslate == InitTranslate /\ [][NextTranslate]_vars

InitNotes == family = "notes" /\ userId = 1 /\ InitWithGoogle

InitUsage == family = "usage" /\ userId = 1 /\ InitFresh

InitSessions == family = "sessions" /\ userId = 1 /\ InitFresh

\* the state after a construction that found a configuration in each
\* namespace, four prompts, a note and a usage record on disk
InitBoth ==
    LET empty == [k \in {"default", "google"} |-> EmptyStore]
        saved1 == saveApiConfiguration(empty,
                      [f \in {DEFAULT_CONFIG_FILE, GOOGLE_CONFIG_FILE} |-> NoFile],
                      Undefined, 1, FALSE, TRUE)
        saved2 == saveApiConfiguration(saved1.stores, saved1.files, Undefined, 2,
                                       TRUE, TRUE)
        seeded == initializeDefaultPrompts([prompts |-> <<>>, nextId |-> 1],
                                           [i \in 1 .. 3 |-> 1])
        created == createSystemPrompt(seeded.prompts, seeded.nextId, NoPromptsFile,
                                      1, 2, TRUE)
        noted == createNote(<<>>, 1, NoNotesFile, <<"a">>, 1, TRUE)
        params == [token |-> <<"a", "b">>, date |-> 1, configId |-> 1,
                   totalTokens |-> 2, name |-> 1, model |-> 1, useGoogle |-> 1]
        recorded == recordApiUsage(<<>>, NoUsageFile, params, TRUE)
    IN /\ userId = 1
       /\ configFiles = saved2.files
       /\ configStores = loadConfigs(loadConfigs(empty, configFiles, FALSE, TRUE),
                                     configFiles, TRUE, TRUE)
       /\ promptsFile = created.file
       /\ systemPrompts = loadPrompts([prompts |-> <<>>, nextId |-> 1],
                                      promptsFile, TRUE).prompts
       /\ currentPromptId = created.nextId
       /\ notesFile = noted.file
       /\ notes = loadNotes([notes |-> <<>>, nextId |-> 1], notesFile, 1, TRUE).notes
       /\ currentNoteId = noted.nextId
       /\ pending = <<>>
       /\ usageFile = recorded.file
       /\ usageByDate = loadUsage(<<>>, usageFile, TRUE)
       /\ calls = [tr \in Triples |->
                     IF tr = <<1, hashToken(<<"a", "b">>), 1>>
                     THEN [n |-> 1, sum |-> 2] ELSE [n |-> 0, sum |-> 0]]
       /\ sessions = [sid \in Sids |-> NoRecord]
       /\ saveTimer = FALSE
       /\ timers = 0
       /\ sessionFile = [sid \in Sids |-> NoRecord]
       /\ now = StartTime
       /\ last = NoOp
       /\ steps = 0
       /\ failures = 0

InitLoad == family = "load" /\ InitBoth

InitCalls == family = "calls" /\ InitBoth

NextCalls == PostChat \/ TestConfig \/ DeleteConfig

\* chat requests with an active configuration in each namespace, or without
SpecCalls == InitCalls /\ [][NextCalls]_vars

InitRace == family = "race" /\ InitBoth

NextRace == PostNote \/ PutNote \/ SummaryDone \/ DeleteNoteReq \/ ClearNotesReq

\* note handlers that overlap at their summary call, over a stored note
SpecRace == InitRace /\ [][NextRace]_vars

NextLoad == DeleteConfig \/ DeletePrompt \/ Restart \/ RestartUnreadable

\* no client has logged in yet
InitAuth == family = "auth" /\ userId = Undefined /\ InitFresh

NextAuth == Login \/ Logout \/ GetSession \/ Unauthorized
                \/ PostConfig \/ PostChat \/ PutPrompt \/ DeletePrompt

NextSessions == SessionGet \/ SessionSet \/ SessionDestroy \/ SessionTouch
                    \/ SaveTimerFires \/ Tick

Init == InitConfig \/ InitPrompts \/ InitNotes \/ InitUsage

Next ==
    \/ family = "config" /\ NextConfig
    \/ family = "prompts" /\ NextPrompts
    \/ family = "notes" /\ NextNotes
    \/ family = "usage" /\ NextUsage

\* every mutating operation of the storage facade; a behaviour exercises one
\* family of operations, the families sharing no state but through the constructor
Spec == Init /\ [][Next]_vars

\* the configuration routes and restarts
SpecConfig == InitConfig /\ [][NextConfig]_vars

\* configurations and the chat route
SpecChat == InitChat /\ [][NextChat]_vars

\* restarts over files that exist, one of which may be unreadable
SpecLoad == InitLoad /\ [][NextLoad]_vars

\* login, logout, the gate on /api and routes behind it
SpecAuth == InitAuth /\ [][NextAuth]_vars

\* the session store, its save timer and the clock
SpecSessions == InitSessions /\ [][NextSessions]_vars

\* the session store with a timer that fires once it is set (setTimeout, 200 ms)
SpecSessionsFair == SpecSessions /\ WF_vars(SaveTimerFires)

\* the prompt routes and restarts
SpecPrompts == InitPrompts /\ [][NextPrompts]_vars

\* the note routes and restarts
SpecNotes == InitNotes /\ [][NextNotes]_vars

\* the note routes where an awaited summary call always settles: fetch either
\* resolves or rejects, and the handler then runs to its end
SpecNotesFair == SpecNotes /\ WF_vars(SummaryDone)

\* the usage ledger
SpecUsage == InitUsage /\ [][NextUsage]_vars

\* ------------------------------------------------------------------ claims
Keys == {"default", "google"}

\* the namespace a request with ?google=g addresses, and the other one
StoreOf(g) == IF g THEN "google" ELSE "default"

FileOf(g) == IF g THEN GOOGLE_CONFIG_FILE ELSE DEFAULT_CONFIG_FILE

\* C1: saveApiConfiguration without an id returns a record R that
\* getApiConfiguration(undefined, namespace) returns right afterwards, and the
\* id of R is the active id of the namespace.
C1_SaveWithoutIdIsActive ==
    (last.op = "save" /\ last.id = Undefined) =>
        /\ last.ret # NoConfig
        /\ last.ret.useGoogle = last.useGoogle
        /\ getApiConfiguration(configStores, Undefined, last.useGoogle) = last.ret
        /\ configStores[StoreOf(last.useGoogle)].activeId = last.ret.id

\* a save without an id into a namespace that already holds another configuration
C1_Witness ==
    /\ last.op = "save" /\ last.id = Undefined
    /\ Len(configStores[StoreOf(last.useGoogle)].configs) >= 2

\* C2: in every reachable state each namespace's activeId is undefined or the
\* key of a configuration present in that namespace's map.
C2_ActiveIdIsAKey ==
    \A k \in Keys :
        \/ configStores[k].activeId = Undefined
        \/ MapHas(configStores[k].configs, configStores[k].activeId)

\* C3: deleting the active id makes the first remaining configuration (in Map
\* order) active and getActive returns it; deleting the last configuration
\* leaves the active id undefined and getActive absent.
C3_DeleteActiveReassigns ==
    [][(/\ last'.op = "delete" /\ last'.status = 204
        /\ configStores[StoreOf(last'.useGoogle)].activeId = last'.id)
       => LET store == configStores'[StoreOf(last'.useGoogle)]
              active == getApiConfiguration(configStores', Undefined, last'.useGoogle)
          IN IF store.configs # <<>>
             THEN store.activeId = store.configs[1].id /\ active = store.configs[1]
             ELSE store.activeId = Undefined /\ active = NoConfig]_vars

\* C4: a saveApiConfiguration call without an id is assigned an id that is not
\* the key of a configuration currently in the namespace.
C4_AllocatedIdIsFresh ==
    [][(last'.op = "save" /\ last'.id = Undefined)
       => ~MapHas(configStores[StoreOf(last'.useGoogle)].configs, last'.ret.id)]_vars

\* C5: a save, delete or setActive on one namespace leaves the other namespace's
\* map, active id and next id unchanged and its file unwritten, and loading one
\* namespace leaves the other namespace's store as it is.
C5_NamespacesIndependent ==
    [][/\ \A g \in BOOLEAN :
            (last'.op \in {"save", "delete", "activate"} /\ last'.useGoogle = g) =>
                /\ configStores'[StoreOf(~g)] = configStores[StoreOf(~g)]
                /\ configFiles'[FileOf(~g)] = configFiles[FileOf(~g)]
                /\ FileOf(~g) \notin last'.wrote
       /\ \A g \in BOOLEAN :
            loadConfigs(configStores', configFiles', g, TRUE)[StoreOf(~g)]
                = configStores'[StoreOf(~g)]]_vars

\* an operation on one namespace while the other holds configurations and a file
C5_Witness ==
    /\ last.op \in {"save", "delete", "activate"}
    /\ last.wrote # {}
    /\ configStores[StoreOf(~last.useGoogle)].configs # <<>>
    /\ configFiles[FileOf(~last.useGoogle)].present

\* C6: setActiveApiConfiguration with an id that is not a key returns absent,
\* changes neither store nor file and the route answers 404; with an existing
\* id it makes exactly that id active.
C6_SetActiveValidates ==
    [][last'.op = "activate" =>
        IF MapHas(configStores[StoreOf(last'.useGoogle)].configs, last'.id)
        THEN /\ last'.status = 200
             /\ configStores'[StoreOf(last'.useGoogle)].activeId = last'.id
             /\ last'.ret.id = last'.id
             /\ getApiConfiguration(configStores', Undefined, last'.useGoogle) = last'.ret
        ELSE /\ last'.status = 404
             /\ last'.ret = NoConfig
             /\ configStores' = configStores
             /\ configFiles' = configFiles
             /\ last'.wrote = {}]_vars

\* an unknown id was refused while another configuration stayed active
C6_Witness ==
    /\ last.op = "activate" /\ last.status = 404
    /\ configStores[StoreOf(last.useGoogle)].activeId \in ExplicitIds

\* C7: every mutating operation writes its family's file, and after a write
\* that succeeded the file is the serialization of the whole collection in
\* memory (for a namespace: the active id and all configurations).
C7_WriteThrough ==
    [][/\ last'.op # "restart" =>
            /\ systemPrompts' # systemPrompts => PROMPTS_FILE \in last'.wrote
            /\ notes' # notes => NOTES_FILE \in last'.wrote
            /\ usageByDate' # usageByDate => USAGE_FILE \in last'.wrote
            /\ \A g \in BOOLEAN :
                 configStores'[StoreOf(g)] # configStores[StoreOf(g)]
                    => FileOf(g) \in last'.wrote
       /\ last'.ok =>
            /\ PROMPTS_FILE \in last'.wrote =>
                 promptsFile' = SerializePrompts(systemPrompts')
            /\ NOTES_FILE \in last'.wrote => notesFile' = SerializeNotes(notes')
            /\ USAGE_FILE \in last'.wrote =>
                 usageFile' = [present |-> TRUE, list |-> FlattenUsage(usageByDate')]
            /\ \A g \in BOOLEAN :
                 FileOf(g) \in last'.wrote =>
                    configFiles'[FileOf(g)] = SerializeConfigs(configStores'[StoreOf(g)])]_vars

\* a delete that reassigned the active id was written through after an earlier
\* write had failed
C7_Witness ==
    /\ last.op = "delete" /\ last.status = 204 /\ last.ok
    /\ failures > 0
    /\ configStores[StoreOf(last.useGoogle)].configs # <<>>

\* C8 as stated: for any N >= 0, a facade constructed from a prompts file that
\* is in step with memory lists the same prompts in the same order.
C8_RoundTripAnyN ==
    [][(last'.op = "restart" /\ promptsFile = SerializePrompts(systemPrompts))
       => getAllSystemPrompts(systemPrompts') = getAllSystemPrompts(systemPrompts)]_vars

\* C8 amended: the round trip holds for N >= 1; from a file with no prompts the
\* new facade holds the three built-in prompts.
C8_RoundTrip ==
    [][(last'.op = "restart" /\ promptsFile = SerializePrompts(systemPrompts))
       => IF Len(systemPrompts) >= 1
          THEN getAllSystemPrompts(systemPrompts') = getAllSystemPrompts(systemPrompts)
          ELSE /\ Len(systemPrompts') = 3
               /\ \A i \in 1 .. 3 : systemPrompts'[i].id = i]_vars

\* a restart reloaded prompts whose listing order differs from their Map order
C8_Witness ==
    /\ last.op = "restart"
    /\ promptsFile = SerializePrompts(systemPrompts)
    /\ getAllSystemPrompts(systemPrompts) # systemPrompts

\* the records of the ledger for a (date, token hash, configId) triple
RecordsOf(usage, tr) ==
    {<<i, j>> \in (1 .. Len(usage)) \X (1 .. 2 * Cardinality(Triples)) :
        /\ j <= Len(usage[i].tokens)
        /\ usage[i].key = tr[1]
        /\ usage[i].tokens[j].key[1] = tr[2]
        /\ usage[i].tokens[j].record.configId = tr[3]}

RECURSIVE CountRecords(_)
CountRecords(usage) ==
    IF usage = <<>> THEN 0 ELSE Len(Head(usage).tokens) + CountRecords(Tail(usage))

\* C9: the ledger holds exactly one record per (date, token hash, configId)
\* triple that was recorded; its requests is the number of calls with that
\* triple and its totalTokens the sum of their totals (a total that is not
\* finite counting as zero).
C9_UsageAccumulates ==
    /\ \A tr \in Triples :
        IF calls[tr].n = 0 THEN RecordsOf(usageByDate, tr) = {}
        ELSE /\ Cardinality(RecordsOf(usageByDate, tr)) = 1
             /\ \A ij \in RecordsOf(usageByDate, tr) :
                  LET rec == usageByDate[ij[1]].tokens[ij[2]].record
                  IN rec.requests = calls[tr].n /\ rec.totalTokens = calls[tr].sum
    /\ CountRecords(usageByDate) = Cardinality({tr \in Triples : calls[tr].n > 0})

\* one triple was recorded twice and other triples with the same token exist
C9_Witness ==
    \E tr \in Triples, other \in Triples :
        /\ calls[tr].n = 2 /\ calls[tr].sum = 4
        /\ other[2] = tr[2] /\ other # tr /\ calls[other].n = 1

\* the token of a configuration with the given data
ConfigToken(data) ==
    IF data = 1 THEN <<"a", "b">> ELSE <<"c", "d", "e", "f", "g", "h", "i", "j", "k">>

RequestsOf(usage, tr) ==
    IF RecordsOf(usage, tr) = {} THEN 0
    ELSE LET ij == CHOOSE x \in RecordsOf(usage, tr) : TRUE
         IN usage[ij[1]].tokens[ij[2]].record.requests

\* C10: a POST /api/chat that completes successfully raises by one the requests
\* counter of the record keyed by (today, hash of the active configuration's
\* token, its id).
C10_ChatRecordsUsage ==
    [][(last'.op = "chat" /\ last'.status = 200)
       => LET tr == <<last'.date, hashToken(ConfigToken(last'.ret.data)), last'.ret.id>>
          IN RequestsOf(usageByDate', tr) = RequestsOf(usageByDate, tr) + 1]_vars

\* C11: no tokenMask held in memory or written to the usage file equals or
\* contains a complete token that was passed to recordApiUsage (tokenHash is a
\* one-way digest; name and model are the caller's own labels), and tokens
\* that agree on the characters the mask shows have the same mask.
C11_TokenNeverPersisted ==
    LET Contains(s, sub) ==
            \E i \in 0 .. Len(s) - Len(sub) : SubSeq(s, i + 1, i + Len(sub)) = sub
        recorded == {tr[2].sha : tr \in {t \in Triples : calls[t].n > 0}}
        inMemory == UNION {{usageByDate[i].tokens[j].record.tokenMask :
                               j \in 1 .. Len(usageByDate[i].tokens)} :
                           i \in 1 .. Len(usageByDate)}
        onDisk == {usageFile.list[i].record.tokenMask : i \in 1 .. Len(usageFile.list)}
    IN /\ \A tk \in recorded, m \in inMemory \cup onDisk : ~Contains(m, tk)
       /\ \A t1, t2 \in Tokens :
            (/\ (Len(Trim(t1)) <= 8) = (Len(Trim(t2)) <= 8)
             /\ IF Len(Trim(t1)) <= 8
                THEN SliceTo(Trim(t1), 2) = SliceTo(Trim(t2), 2)
                ELSE /\ SliceTo(Trim(t1), 4) = SliceTo(Trim(t2), 4)
                     /\ SliceLast(Trim(t1), 4) = SliceLast(Trim(t2), 4))
            => maskToken(t1) = maskToken(t2)

\* C12: get(sid) returns the stored payload exactly when a record for sid is
\* present and its expiresAt is unset or later than the current time, and
\* a record that is present but expired is removed by the get.
C12_GetIffLive ==
    [][(steps' # steps /\ last'.op = "get")
       => LET record == sessions[last'.id]
              live == /\ record.present
                      /\ (record.expiresAt \in {Undefined, Null} \/ record.expiresAt > now)
          IN /\ (last'.ret # NoData) <=> live
             /\ live => last'.ret = record.data
             /\ (record.present /\ ~live) => ~sessions'[last'.id].present]_vars

\* C13: a get of a session whose data was set with a cookie of maxAge 0 (and no
\* explicit expiry), or with an explicit expiry at or before the time of the
\* set (StartTime is at or before every such time), returns absent.
C13_ExpiredSetIsAbsent ==
    [][(steps' # steps /\ last'.op = "get")
       => LET record == sessions[last'.id]
              cookie == record.data.cookie
              doomed == /\ record.present /\ cookie.present
                        /\ \/ cookie.expires = Undefined /\ cookie.maxAge = 0
                           \/ cookie.expires \in 0 .. StartTime
          IN doomed => last'.ret = NoData]_vars

\* C14: a touch of a sid without a record changes neither the store nor the
\* timer nor the file, and a get of a sid without a record returns absent; a
\* touch of a sid with a record stores what set would store.
C14_TouchNeverCreates ==
    [][/\ (steps' # steps /\ last'.op = "touch")
          => IF sessions[last'.id].present
             THEN sessions' = set(sessions, last'.id, last'.ret, now).sessions
             ELSE UNCHANGED <<sessions, saveTimer, timers, sessionFile>>
       /\ (steps' # steps /\ last'.op = "get" /\ ~sessions[last'.id].present)
          => (last'.ret = NoData /\ UNCHANGED sessions)]_vars

\* a touch of a sid that has no record, next to a session that exists
C14_Witness ==
    /\ last.op = "touch"
    /\ ~sessions[last.id].present
    /\ \E other \in Sids : sessions[other].present

\* C15: at most one save timer is pending, and one is pending whenever the
\* store differs from what was last written; only the timer's callback writes
\* the file, once, and what it writes is the whole store after pruning.
C15_SavesCoalesced ==
    /\ [](timers <= 1 /\ (saveTimer <=> timers = 1))
    /\ []((timers = 0 /\ failures = 0) => sessionFile = sessions)
    /\ [][/\ (steps' # steps /\ last'.op = "persist")
             => /\ timers = 1 /\ timers' = 0
                /\ sessions' = pruneExpired(sessions, now)
                /\ last'.ok => sessionFile' = sessions'
          /\ (steps' # steps /\ last'.op \in {"get", "set", "touch", "destroy"})
             => /\ sessionFile' = sessionFile
                /\ last'.wrote = {}
                /\ sessions' # sessions => timers' = 1
                /\ last'.op \in {"set", "destroy"} => timers' = 1]_vars

\* two sessions set while one timer was pending reached the file in one write
C15_Witness ==
    /\ last.op = "persist" /\ last.ok
    /\ steps = 3
    /\ \A sid \in Sids : sessionFile[sid].present

\* the route handlers behind the gate, by the name of their operation
ProtectedOps == {"save", "activate", "delete", "chat", "createPrompt",
                 "updatePrompt", "deletePrompt", "createNote", "updateNote",
                 "deleteNote", "clearNotes"}

\* C16: a request to a protected path whose session carries no userId is
\* answered 401 with no storage mutation and no outbound call, and no handler
\* of a protected route runs for such a session.
C16_AuthGate ==
    [][(steps' # steps /\ last'.op \in ProtectedOps \cup {"unauthorized"})
       => IF userId = Undefined
          THEN /\ last'.op = "unauthorized"
               /\ last'.status = 401
               /\ last'.outbound = 0
               /\ UNCHANGED <<cfgVars, promptVars, noteVars, usageVars>>
          ELSE last'.op \in ProtectedOps]_vars

\* a client that has logged out is turned away
C16_Witness ==
    /\ last.op = "unauthorized" /\ last.status = 401
    /\ userId = Undefined
    /\ steps = 3

\* C17 as stated: login sets userId exactly when username and password equal
\* the stored user's; otherwise it answers 401 and the session carries no
\* userId afterwards; GET /api/session answers 401 for a session without userId.
C17_LoginIffCredentials ==
    [][/\ (steps' # steps /\ last'.op = "login")
          => IF /\ last'.ret.username = users[1].username
                /\ last'.ret.password = users[1].password
             THEN userId' = users[1].id /\ last'.status = 200
             ELSE userId' = Undefined /\ last'.status = 401
       /\ (steps' # steps /\ last'.op = "session")
          => (last'.status = 401 <=> userId = Undefined)]_vars

\* C17 amended: a login with other credentials answers 401 and leaves the
\* session as it was, so a session without userId stays without.
C17_LoginChecksCredentials ==
    [][/\ (steps' # steps /\ last'.op = "login")
          => IF /\ last'.ret.username = users[1].username
                /\ last'.ret.password = users[1].password
             THEN userId' = users[1].id /\ last'.status = 200
             ELSE userId' = userId /\ last'.status = 401
       /\ (steps' # steps /\ last'.op = "session")
          => (last'.status = 401 <=> userId = Undefined)]_vars

\* the right user name with a wrong password, on a session without userId
C17_Witness ==
    /\ last.op = "login" /\ last.status = 401
    /\ last.ret.username = users[1].username
    /\ userId = Undefined

\* C20 as stated: PUT and DELETE of a prompt id that is not in the store answer
\* 404 and leave the prompts and the prompts file unchanged.
C20_MissingPromptIs404 ==
    [][(/\ steps' # steps
        /\ last'.op \in {"updatePrompt", "deletePrompt"}
        /\ ~MapHas(systemPrompts, last'.id))
       => /\ last'.status = 404
          /\ UNCHANGED <<systemPrompts, promptsFile>>]_vars

\* C20 amended: the PUT answers 404 when its body passes the schema and 400
\* when it does not; the DELETE answers 404; nothing changes in either case.
C20_MissingPromptIs404OrInvalid ==
    [][(/\ steps' # steps
        /\ last'.op \in {"updatePrompt", "deletePrompt"}
        /\ ~MapHas(systemPrompts, last'.id))
       => /\ last'.status = IF last'.valid THEN 404 ELSE 400
          /\ UNCHANGED <<systemPrompts, promptsFile>>]_vars

\* a PUT with a valid body for an id that was deleted before
C20_Witness ==
    /\ last.op = "updatePrompt" /\ last.status = 404 /\ last.valid
    /\ last.id \in 1 .. 3
    /\ Len(systemPrompts) = 2

\* C18: an operation whose file write fails answers as if it had succeeded and
\* leaves memory as the successful operation would; and whenever the last
\* operation's write succeeded, each file it wrote is the serialization of the
\* whole collection in memory, the changes of earlier failed writes included
\* (each configuration namespace being a collection with a file of its own).
C18_WriteFailureCatchesUp ==
    /\ [][(last'.wrote # {} /\ ~last'.ok) =>
            /\ last'.status \in {0, 200, 201, 204}
            /\ last'.op = "save" =>
                 LET r == saveApiConfiguration(configStores, configFiles, last'.id,
                              last'.ret.data, last'.useGoogle, TRUE)
                 IN configStores' = r.stores /\ last'.ret = r.ret
            /\ last'.op = "delete" =>
                 configStores' = deleteApiConfiguration(configStores, configFiles,
                                     last'.id, last'.useGoogle, TRUE).stores
            /\ last'.op = "deletePrompt" =>
                 systemPrompts' = deleteSystemPrompt(systemPrompts, promptsFile,
                                      last'.id, TRUE).prompts
            /\ last'.op = "deleteNote" =>
                 notes' = deleteNote(notes, notesFile, last'.id, TRUE).notes
            /\ last'.op = "clearNotes" => notes' = <<>>]_vars
    /\ [](last.ok =>
            /\ PROMPTS_FILE \in last.wrote => promptsFile = SerializePrompts(systemPrompts)
            /\ NOTES_FILE \in last.wrote => notesFile = SerializeNotes(notes)
            /\ USAGE_FILE \in last.wrote =>
                 usageFile = persistUsage(usageByDate, NoUsageFile, TRUE)
            /\ \A g \in BOOLEAN :
                 FileOf(g) \in last.wrote =>
                    configFiles[FileOf(g)] = SerializeConfigs(configStores[StoreOf(g)]))

\* a save whose write failed, then a save in the same namespace whose write
\* succeeded: the file holds both configurations
C18_Witness ==
    /\ steps = 2 /\ failures = 1
    /\ last.op = "save" /\ last.ok
    /\ Len(configStores[StoreOf(last.useGoogle)].configs) = 2
    /\ Len(configFiles[FileOf(last.useGoogle)].configs) = 2

\* C19: at a restart a file that exists but cannot be read or parsed leaves its
\* collection empty (a configuration namespace: no configurations, active id
\* undefined, next id 1; notes and usage: nothing; prompts: nothing from the
\* file, so only the three seeded defaults), and every readable file is loaded
\* as it is on disk (a configuration id the file repeats is one key)
C19_UnreadableFileLoadsEmpty ==
    [][(last'.op = "restart" /\ steps' # steps) =>
        /\ \A g \in BOOLEAN :
              LET file == configFiles[ConfigFile(g)]
                  store == configStores'[getStore(g)]
              IN IF ConfigFile(g) \in last'.unreadable
                 THEN /\ store.configs = <<>>
                      /\ store.activeId = Undefined
                      /\ store.nextId = 1
                 ELSE /\ \A i \in 1 .. Len(file.configs) :
                            MapHas(store.configs, file.configs[i].id)
                      /\ \A i \in 1 .. Len(store.configs) :
                            \E j \in 1 .. Len(file.configs) :
                               /\ file.configs[j].id = store.configs[i].id
                               /\ file.configs[j].data = store.configs[i].data
                      /\ \A i, j \in 1 .. Len(store.configs) :
                            store.configs[i].id = store.configs[j].id => i = j
                      /\ store.activeId = file.activeId
        /\ IF PROMPTS_FILE \in last'.unreadable
           THEN /\ Len(systemPrompts') = 3
                /\ \A i \in 1 .. 3 : systemPrompts'[i].id = i
                /\ currentPromptId' = 4
           ELSE promptsFile.list # <<>> =>
                   /\ Len(systemPrompts') = Len(promptsFile.list)
                   /\ \A i \in 1 .. Len(promptsFile.list) :
                         systemPrompts'[i].id = promptsFile.list[i].id
        /\ IF NOTES_FILE \in last'.unreadable
           THEN notes' = <<>> /\ currentNoteId' = 1
           ELSE /\ Len(notes') = Len(notesFile.list)
                /\ \A i \in 1 .. Len(notesFile.list) :
                      /\ notes'[i].id = notesFile.list[i].id
                      /\ notes'[i].content = notesFile.list[i].content
        /\ IF USAGE_FILE \in last'.unreadable
           THEN usageByDate' = <<>>
           ELSE FlattenUsage(usageByDate') = usageFile.list]_vars

\* a restart found the Google file unreadable: the namespace is empty although
\* its file holds a configuration, and the other families are loaded
C19_Witness ==
    /\ last.op = "restart"
    /\ last.unreadable = {GOOGLE_CONFIG_FILE}
    /\ configFiles[GOOGLE_CONFIG_FILE].configs # <<>>
    /\ configStores["google"] = EmptyStore
    /\ configStores["default"].configs # <<>>
    /\ notes # <<>>
    /\ usageByDate # <<>>
    /\ Len(systemPrompts) = 4

\* C21: every note that createNote or updateNote stored has as its title the
\* first line of its content that is not blank, trimmed and then cut to
\* TitleCap characters, or the placeholder when every line is blank; the title
\* is never empty
C21_TitleIsFirstNonBlankLine ==
    \A n \in 1 .. Len(notes) :
        LET lines == Split(notes[n].content)
            nonBlank == {i \in 1 .. Len(lines) : Trim(lines[i]) # <<>>}
            first == CHOOSE i \in nonBlank : \A j \in nonBlank : i <= j
            line == Trim(lines[first])
        IN /\ notes[n].title # <<>>
           /\ Len(notes[n].title) <= TitleCap
           /\ IF nonBlank = {} THEN notes[n].title = Placeholder
              ELSE /\ Len(notes[n].title) = (IF Len(line) < TitleCap THEN Len(line) ELSE TitleCap)
                   /\ \A k \in 1 .. Len(notes[n].title) : notes[n].title[k] = line[k]

\* a note has been updated to a content whose first non-blank line, once
\* trimmed, is longer than TitleCap and has a blank at position TitleCap
C21_Witness ==
    /\ last.op = "updateNote"
    /\ Len(notes) = 1
    /\ Len(notes[1].content) > TitleCap + 2
    /\ Head(notes[1].content) = "\n"
    /\ Len(notes[1].title) = TitleCap
    /\ notes[1].title[TitleCap] = " "


\* C22: on the Google path the contents sent map role assistant to model and
\* every other role to user, in the order of the messages; with a system
\* instruction and a first turn of role user the instruction is a prefix of that
\* turn's text and the number of turns is that of the messages; only without a
\* leading user turn is one turn added, of role user, carrying the instruction
\* (a label in front of the instruction is let pass)
C22_GoogleTranslationFolds ==
    (last.op = "chat" /\ last.useGoogle /\ last.outbound = 1) =>
        LET m == last.messages
            c == last.contents
            sp == last.systemPrompt
            Role(r) == IF r = "assistant" THEN "model" ELSE "user"
            folds == sp # <<>> /\ Len(m) > 0 /\ Role(m[1].role) = "user"
            adds == sp # <<>> /\ ~folds
            shift == IF adds THEN 1 ELSE 0
        IN /\ Len(c) = Len(m) + shift
           /\ \A i \in 1 .. Len(m) :
                 /\ c[i + shift].role = Role(m[i].role)
                 /\ (i > 1 \/ ~folds) => c[i + shift].text = m[i].content
           /\ folds => /\ Len(c[1].text) = Len(sp) + 2 + Len(m[1].content)
                       /\ SubSeq(c[1].text, 1, Len(sp)) = sp
                       /\ SubSeq(c[1].text, Len(c[1].text) - Len(m[1].content) + 1,
                                 Len(c[1].text)) = m[1].content
           /\ adds => /\ c[1].role = "user"
                      /\ Len(c[1].text) >= Len(sp)
                      /\ SubSeq(c[1].text, Len(c[1].text) - Len(sp) + 1,
                                Len(c[1].text)) = sp

C24_TestPassesStatusThrough ==
    last.op = "test" =>
        /\ last.ret = NoConfig => (last.status = 400 /\ last.outbound = 0)
        /\ last.upstream = "status" => last.status = last.upstreamStatus

\* C25: when the timer's callback has written the session file, no entry of the
\* file and no entry of the in-memory map has an expiresAt that is set (neither
\* undefined nor null) and at or before the current time
C25_WrittenFileHasNoExpired ==
    [][(last'.op = "persist" /\ last'.ok /\ steps' # steps) =>
        \A sid \in Sids :
            /\ sessionFile'[sid].present =>
                  \/ sessionFile'[sid].expiresAt \in {Undefined, Null}
                  \/ sessionFile'[sid].expiresAt > now'
            /\ sessions'[sid].present =>
                  \/ sessions'[sid].expiresAt \in {Undefined, Null}
                  \/ sessions'[sid].expiresAt > now']_vars

\* C26 (as stated): a state is reached in which the requests have completed,
\* every write succeeded, and the notes file differs from the notes in memory
C26_StaleFileReachable ==
    <>(/\ pending = <<>>
       /\ failures = 0
       /\ last.ok
       /\ notesFile.present
       /\ notesFile # SerializeNotes(notes))

\* C26 (amended): a storage method changes memory and writes the file in one
\* step, so handlers overlap only between such steps; as long as no write has
\* failed the notes file holds exactly the notes in memory, whichever handler
\* wrote last
C26_FileFollowsMemory ==
    (failures = 0 /\ (notes # <<>> \/ notesFile.present))
        => notesFile = SerializeNotes(notes)

\* a second note was created and answered while the first handler awaited its
\* summary; the first handler then stored the summary, and the file holds both
C26_Witness ==
    /\ last.op = "summaryDone"
    /\ last.id = 1
    /\ last.wrote = {NOTES_FILE}
    /\ failures = 0
    /\ pending = <<>>
    /\ Len(notes) = 2
    /\ notes[1].summary # NoSummary
    /\ notesFile = SerializeNotes(notes)

\* C27: when the last of the overlapping PUT handlers of a note finishes by
\* storing its summary, the summary on the note is the one computed from the
\* content that is on the note
C27_SummaryMatchesContent ==
    [][(/\ last'.op = "summaryDone"
        /\ last'.status = 200
        /\ steps' # steps
        /\ NOTES_FILE \in last'.wrote
        /\ pending' = <<>>)
       => MapGetNote(notes', last'.id).summary
            = SummaryOf(MapGetNote(notes', last'.id).content)]_vars

C30_DeleteKeepsActive ==
    [][last'.op = "delete" =>
        LET k == StoreOf(last'.useGoogle)
            store == configStores[k]
            present == MapHas(store.configs, last'.id)
        IN /\ (present /\ store.activeId # last'.id) =>
                 /\ last'.status = 204
                 /\ configStores'[k].activeId = store.activeId
                 /\ configStores'[k].configs = MapDelete(store.configs, last'.id)
                 /\ configStores'[k].nextId = store.nextId
           /\ ~present =>
                 /\ last'.status = 404
                 /\ configStores' = configStores
                 /\ configFiles' = configFiles
                 /\ last'.wrote = {}]_vars

\* the older of two configurations was deleted and the newer one is still active
C30_Witness ==
    /\ last.op = "delete" /\ last.status = 204
    /\ last.id = 1
    /\ configStores[StoreOf(last.useGoogle)].activeId = 2
    /\ MapHas(configStores[StoreOf(last.useGoogle)].configs, 2)
    /\ ~MapHas(configStores[StoreOf(last.useGoogle)].configs, 1)

====
